---- MODULE Spec2Model ----
\* Model of the LinkedIn post search pipeline: the three search adapters of
\* utils/linkedin.py, extract_post_content, and the /search endpoint loop of
\* api/routes.py.
EXTENDS Integers, Sequences, FiniteSets, TLC

\* ---------------------------------------------------------------------------
\* Strings.  A URL is modelled as the sequence of its "/"-separated segments
\* (url.split("/")), over a small vocabulary of segments.
\* ---------------------------------------------------------------------------

UrlPost == <<"https:", "", "www.linkedin.com", "posts", "alice_n8n-activity-1">>

UrlPostMixed == <<"https:", "", "www.LinkedIn.com", "Posts", "bob_tips-activity-2", "">>

UrlOther == <<"https:", "", "example.com", "posts", "carol">>

\* str.lower() on the segment vocabulary
LowerSeg(s) ==
  CASE s = "www.LinkedIn.com" -> "www.linkedin.com"
    [] s = "Posts" -> "posts"
    [] OTHER -> s

\* a (lower-case) segment that ends with "linkedin.com"
EndsWithLinkedinCom(s) == s \in {"www.linkedin.com", "linkedin.com"}

\* a (lower-case) segment that starts with "posts"
StartsWithPosts(s) == s \in {"posts"}

\* a check for "/posts" alone, without the domain
ContainsMarkerPostsOnly(u) ==
  \E k \in 1..Len(u) : StartsWithPosts(LowerSeg(u[k]))

\* "linkedin.com/posts" in url.lower(): the marker spans one "/" boundary
ContainsMarker(u) ==
  \E k \in 1..(Len(u) - 1) :
     EndsWithLinkedinCom(LowerSeg(u[k])) /\ StartsWithPosts(LowerSeg(u[k+1]))

\* ---------------------------------------------------------------------------
\* Dates.  Instants are half-days (t \div 2 is the day).  A date bound
\* "YYYY-MM-DD" is a day b; datetime.strptime gives its midnight, instant 2*b.
\* A raw date string has a format: "iso" (naive ISO, or a relative phrase
\* such as "3 days ago"), "isoZ" (ISO with a trailing Z or an offset), or
\* "empty" (missing, or nothing parseable).
\* ---------------------------------------------------------------------------

NoBound == -1

MinBounds == {NoBound, 1}

MaxBounds == {NoBound, 2}

\* Day 0 is 2023-12-31, day 1 is 2024-01-01, day 2 is 2024-01-02.  Each
\* date string also carries its text s as a sequence of characters.  "junk"
\* is a non-zero-padded date that fromisoformat rejects.
DateStrs == {[kind |-> "iso", t |-> 1, s |-> <<"2", "0", "2", "3", "-", "1", "2", "-", "3", "1", "T", "1", "2", ":", "0", "0">>],
             [kind |-> "iso", t |-> 4, s |-> <<"2", "0", "2", "4", "-", "0", "1", "-", "0", "2", " ", "0", "0", ":", "0", "0">>],
             [kind |-> "isoZ", t |-> 3, s |-> <<"2", "0", "2", "4", "-", "0", "1", "-", "0", "1", "T", "1", "2", ":", "0", "0", "Z">>],
             [kind |-> "empty", t |-> 0, s |-> <<>>],
             [kind |-> "junk", t |-> 0, s |-> <<"2", "0", "2", "4", "-", "1", "-", "2">>]}

\* the "YYYY-MM-DD" text of a bound day
BoundStr(b) == IF b = 1 THEN <<"2", "0", "2", "4", "-", "0", "1", "-", "0", "1">> ELSE <<"2", "0", "2", "4", "-", "0", "1", "-", "0", "2">>

NoDate == [kind |-> "none", t |-> 0]

\* parse_duckduckgo_date: fromisoformat(s.replace('Z', '+00:00')), else a
\* relative phrase, else None
ParseDuckduckgoDate(ds) ==
  CASE ds.kind = "iso" -> [kind |-> "naive", t |-> ds.t]
    [] ds.kind = "isoZ" -> [kind |-> "aware", t |-> ds.t]
    [] OTHER -> NoDate

\* Exa: fromisoformat(published_date.replace('Z', '+00:00')) if
\* published_date else None; ValueError -> None
ParseExaDate(ds) == ParseDuckduckgoDate(ds)

BoundInstant(b) == 2 * b

\* ---------------------------------------------------------------------------
\* Provider responses.  A hit carries a url and a date string.  status is
\* "ok", "neterr" (the provider call raises) or "badjson" (the generic
\* adapter's extracted_content is not JSON).
\* ---------------------------------------------------------------------------

MaxHits == 2

Urls == {UrlPost, UrlPostMixed, UrlOther}

Hits == [url : Urls, date : DateStrs]

HitSeqs(n) == UNION {[1..k -> Hits] : k \in 0..n}

MaxRes == 3

DefaultMaxResults == 15

\* ddgs.text(..., max_results=15)
DdgProviderResults == 15

Result(r, c, called, req) == [raised |-> r, cands |-> c, called |-> called, requested |-> req]

\* --- search_linkedin_posts (generic search engine + LLM extraction) -------
\* code points of the characters of the date vocabulary
Ord(c) ==
  CASE c = " " -> 32 [] c = "-" -> 45 [] c = "0" -> 48 [] c = "1" -> 49
    [] c = "2" -> 50 [] c = "3" -> 51 [] c = "4" -> 52 [] c = "5" -> 53
    [] c = "6" -> 54 [] c = "7" -> 55 [] c = "8" -> 56 [] c = "9" -> 57
    [] c = ":" -> 58 [] c = "T" -> 84 [] c = "Z" -> 90

\* Python str < str: code-point lexicographic order
RECURSIVE StrLt(_, _)
StrLt(a, b) ==
  IF a = <<>> THEN b # <<>>
  ELSE IF b = <<>> THEN FALSE
  ELSE IF Ord(Head(a)) # Ord(Head(b)) THEN Ord(Head(a)) < Ord(Head(b))
  ELSE StrLt(Tail(a), Tail(b))

RECURSIVE DropSpaces(_)
DropSpaces(str) == IF str # <<>> /\ Head(str) = " " THEN DropSpaces(Tail(str)) ELSE str

RECURSIVE TakeToken(_)
TakeToken(str) == IF str = <<>> \/ Head(str) = " " THEN <<>> ELSE <<Head(str)>> \o TakeToken(Tail(str))

\* post["date"].split()[0]; <<>> stands for the IndexError of a blank string
FirstToken(str) == TakeToken(DropSpaces(str))

\* post_date < min_publish_date
LexLtBound(ds, b) == StrLt(FirstToken(ds.s), BoundStr(b))

\* post_date > max_publish_date, tested as >= (a bug variant)
LexGtBoundInclusive(ds, b) ==
  StrLt(BoundStr(b), FirstToken(ds.s)) \/ FirstToken(ds.s) = BoundStr(b)

\* post_date > max_publish_date
LexGtBound(ds, b) == StrLt(BoundStr(b), FirstToken(ds.s))

\* lines 261-281: a hit passes a bound when its date is empty (post.get("date")
\* is falsy) or split()[0] raises IndexError (caught, pass)
GenericKeep(h, minB, maxB) ==
  /\ ContainsMarker(h.url)
  /\ ~(minB # NoBound /\ h.date.s # <<>> /\ FirstToken(h.date.s) # <<>> /\ LexLtBound(h.date, minB))
  /\ ~(maxB # NoBound /\ h.date.s # <<>> /\ FirstToken(h.date.s) # <<>> /\ LexGtBound(h.date, maxB))

GenericCand(h) == [url |-> h.url, date |-> h.date]

RECURSIVE GenericFilter(_, _, _)
GenericFilter(hs, minB, maxB) ==
  IF hs = <<>> THEN <<>>
  ELSE IF GenericKeep(Head(hs), minB, maxB)
       THEN <<GenericCand(Head(hs))>> \o GenericFilter(Tail(hs), minB, maxB)
       ELSE GenericFilter(Tail(hs), minB, maxB)

\* crawler.arun and json.loads(result.extracted_content) are not guarded
SearchLinkedinPosts(resp, minB, maxB) ==
  IF resp.status # "ok" THEN Result(TRUE, <<>>, TRUE, 0)
  ELSE Result(FALSE, GenericFilter(resp.hits, minB, maxB), TRUE, 0)

\* --- search_linkedin_posts_duckduckgo ------------------------------------
DdgCand(h, d) == [url |-> h.url, date |-> d]

\* post_date < min_date / post_date > max_date: comparing an aware datetime
\* with a naive one raises TypeError
CmpRaises(d) == d.kind = "aware"

RECURSIVE DdgLoop(_, _, _, _, _)
DdgLoop(hs, minB, maxB, mr, acc) ==
  IF hs = <<>> THEN [raised |-> FALSE, cands |-> acc]
  ELSE
    LET h == Head(hs)
        d == ParseDuckduckgoDate(h.date)
    IN
    IF ~ContainsMarker(h.url) THEN DdgLoop(Tail(hs), minB, maxB, mr, acc)
    ELSE IF minB # NoBound /\ d.kind # "none" /\ CmpRaises(d)
      THEN [raised |-> TRUE, cands |-> acc]
    ELSE IF minB # NoBound /\ (d.kind = "none" \/ d.t < BoundInstant(minB))
      THEN DdgLoop(Tail(hs), minB, maxB, mr, acc)
    ELSE IF maxB # NoBound /\ d.kind # "none" /\ CmpRaises(d)
      THEN [raised |-> TRUE, cands |-> acc]
    ELSE IF maxB # NoBound /\ (d.kind = "none" \/ d.t > BoundInstant(maxB))
      THEN DdgLoop(Tail(hs), minB, maxB, mr, acc)
    ELSE
      LET acc2 == Append(acc, DdgCand(h, d)) IN
      IF Len(acc2) >= mr THEN [raised |-> FALSE, cands |-> acc2]
      ELSE DdgLoop(Tail(hs), minB, maxB, mr, acc2)

\* the cap tested with len(search_results) > max_results (a bug variant)
SearchLinkedinPostsDuckduckgoLateCap(resp, minB, maxB, mr) ==
  IF resp.status # "ok" THEN Result(FALSE, <<>>, TRUE, DdgProviderResults)
  ELSE LET r == DdgLoop(resp.hits, minB, maxB, mr + 1, <<>>) IN
       IF r.raised THEN Result(FALSE, <<>>, TRUE, DdgProviderResults)
       ELSE Result(FALSE, r.cands, TRUE, DdgProviderResults)

\* the loop is inside try/except Exception -> return []
SearchLinkedinPostsDuckduckgo(resp, minB, maxB, mr) ==
  IF resp.status # "ok" THEN Result(FALSE, <<>>, TRUE, DdgProviderResults)
  ELSE LET r == DdgLoop(resp.hits, minB, maxB, mr, <<>>) IN
       IF r.raised THEN Result(FALSE, <<>>, TRUE, DdgProviderResults)
       ELSE Result(FALSE, r.cands, TRUE, DdgProviderResults)

\* lines 318-327: days_ago = (datetime.now() - min_date).days, the floor of
\* the difference in days (instants are half-days)
DaysAgo(now, b) == (now - BoundInstant(b)) \div 2

\* the recency bucket tested with < instead of <= (a bug variant)
TimelimitStrict(now, b) ==
  IF b = NoBound THEN "y"
  ELSE LET d == DaysAgo(now, b) IN
       IF d < 1 THEN "d" ELSE IF d < 7 THEN "w" ELSE IF d < 30 THEN "m" ELSE "y"

Timelimit(now, b) ==
  IF b = NoBound THEN "y"
  ELSE LET d == DaysAgo(now, b) IN
       IF d <= 1 THEN "d" ELSE IF d <= 7 THEN "w" ELSE IF d <= 30 THEN "m" ELSE "y"

\* --- search_linkedin_posts_exa -------------------------------------------
ExaCand(h) == [url |-> h.url, date |-> ParseExaDate(h.date)]

RECURSIVE ExaLoop(_, _, _)
ExaLoop(hs, mr, acc) ==
  IF hs = <<>> THEN acc
  ELSE IF ~ContainsMarker(Head(hs).url) THEN ExaLoop(Tail(hs), mr, acc)
  ELSE LET acc2 == Append(acc, ExaCand(Head(hs))) IN
       IF Len(acc2) >= mr THEN acc2 ELSE ExaLoop(Tail(hs), mr, acc2)

\* the provider call issued without the exa_client guard
SearchLinkedinPostsExaUnguarded(credential, resp, mr) ==
  IF resp.status # "ok" THEN Result(FALSE, <<>>, TRUE, mr * 2)
  ELSE Result(FALSE, ExaLoop(resp.hits, mr, <<>>), TRUE, mr * 2)

\* exa_client is None when EXA_API_KEY is unset: return [] before the call
SearchLinkedinPostsExa(credential, resp, mr) ==
  IF ~credential THEN Result(FALSE, <<>>, FALSE, 0)
  ELSE IF resp.status # "ok" THEN Result(FALSE, <<>>, TRUE, mr * 2)
  ELSE Result(FALSE, ExaLoop(resp.hits, mr, <<>>), TRUE, mr * 2)

\* ---------------------------------------------------------------------------
\* extract_post_content(url, post_meta, debug_html).  Each call to the
\* crawler either returns or throws; the extracted payload is a JSON text.
\* An extraction input x records the outcome of every external step.
\* ---------------------------------------------------------------------------

\* post_content[:20000] + "... (truncated)"
MaxContentLen == 20000

\* result.extracted_content[:50000]
MaxPayloadLen == 50000

BodyOver == 2

\* the post_content field of the first JSON item: missing, null, or a
\* string of the given length
Fields == {[st |-> "missing", len |-> 0], [st |-> "null", len |-> 0]}
          \cup {[st |-> "str", len |-> n] :
                  n \in {0, 1, MaxContentLen, MaxContentLen + 1, MaxContentLen + BodyOver}}

\* the JSON document in extracted_content; "bignum" is an integer literal of
\* more than 4300 digits, which json.loads rejects with a ValueError (the
\* int digit limit of Python 3.11+)
Docs == {[kind |-> k, field |-> [st |-> "missing", len |-> 0]] :
           k \in {"invalid", "num", "bignum", "null", "list0", "listNonDict"}}
        \cup {[kind |-> k, field |-> f] : k \in {"listDict", "dict"}, f \in Fields}

InvalidDoc == [kind |-> "invalid", field |-> [st |-> "missing", len |-> 0]]

\* the documents the first MaxPayloadLen characters of a long text can hold
\* when the whole text holds d: d itself (only whitespace follows), a text
\* that is not valid JSON (the cut falls inside the document), any document
\* when d is invalid (a complete document followed by more text), and any
\* number when d is a number (the cut falls inside its digits)
PrefixDocs(d) ==
  {d, InvalidDoc}
  \cup (IF d.kind = "invalid" THEN Docs ELSE {})
  \cup (IF d.kind \in {"num", "bignum"}
        THEN {[kind |-> k, field |-> [st |-> "missing", len |-> 0]] : k \in {"num", "bignum"}}
        ELSE {})

\* extracted_content: absent/empty, or a text holding the document doc, either
\* short or longer than MaxPayloadLen; pre is the document its first
\* MaxPayloadLen characters hold (doc itself for a short text)
Payloads == {[present |-> FALSE, long |-> FALSE, doc |-> InvalidDoc, pre |-> InvalidDoc]}
            \cup {[present |-> TRUE, long |-> FALSE, doc |-> d, pre |-> d] : d \in Docs}
            \cup UNION {{[present |-> TRUE, long |-> TRUE, doc |-> d, pre |-> c] : c \in PrefixDocs(d)} :
                          d \in Docs}

\* the debug write: "ok", open() fails ("failOpen", no file), write() fails
\* after open() created the file ("failWrite", an empty file is left), or
\* os.makedirs fails ("failDirs", nothing is created)
DebugWriteOutcomes == {"ok", "failOpen", "failWrite", "failDirs"}

ExtractInputs ==
  {[debug |-> FALSE, dfetch |-> "ok", dwrite |-> "ok", crawler |-> c, fetch |-> f, payload |-> p] :
      c \in {"ok", "throw"}, f \in {"ok", "throw"}, p \in Payloads}
  \cup
  {[debug |-> TRUE, dfetch |-> df, dwrite |-> dw, crawler |-> c, fetch |-> f, payload |-> p] :
      df \in {"ok", "throw"}, dw \in DebugWriteOutcomes, c \in {"ok", "throw"},
      f \in {"ok", "throw"}, p \in Payloads}

Sentinel(txt) == [kind |-> "sentinel", text |-> txt, len |-> 0, marker |-> FALSE]

ErrDesc(txt) == [kind |-> "errdesc", text |-> txt, len |-> 0, marker |-> FALSE]

\* the cap tested with >= instead of >
TruncateBodyGe(txt, n) ==
  IF n >= MaxContentLen
  THEN [kind |-> "body", text |-> txt, len |-> MaxContentLen, marker |-> TRUE]
  ELSE [kind |-> "body", text |-> txt, len |-> n, marker |-> FALSE]

\* if len(post_content) > 20000: post_content = post_content[:20000] + "... (truncated)"
TruncateBody(txt, n) ==
  IF n > MaxContentLen
  THEN [kind |-> "body", text |-> txt, len |-> MaxContentLen, marker |-> TRUE]
  ELSE [kind |-> "body", text |-> txt, len |-> n, marker |-> FALSE]

\* content_str = extracted_content[:50000]
TruncatePayload(p) == p.pre

\* str(content_item.get("post_content", "")): str(None) is "None"
PostContentStr(f) ==
  CASE f.st = "missing" -> [text |-> "", len |-> 0]
    [] f.st = "null" -> [text |-> "None", len |-> 4]
    [] OTHER -> [text |-> "post_content", len |-> f.len]

\* the inner try of lines 149-177
ProcessDoc(doc) ==
  IF doc.kind = "invalid" THEN Sentinel("Failed to parse content")
  \* the digit-limit ValueError is not a JSONDecodeError: except Exception
  ELSE IF doc.kind = "bignum" THEN ErrDesc("Error processing content: <error>")
  ELSE IF doc.kind \notin {"list0", "listNonDict", "listDict", "dict"}
    THEN Sentinel("Invalid content structure")
  ELSE IF doc.kind = "listNonDict"
    \* content_item.get raises AttributeError, caught by except Exception
    THEN ErrDesc("Error processing content: <error>")
  ELSE
    LET pcs == IF doc.kind = "list0" THEN PostContentStr([st |-> "missing", len |-> 0])
               ELSE PostContentStr(doc.field)
    IN IF pcs.len = 0 THEN Sentinel("No content found")
       ELSE TruncateBody(pcs.text, pcs.len)

\* lines 75-104: every failure of the debug capture is caught and printed;
\* written: "<stem>_raw.html" exists afterwards; dirMade: debug_html does
DebugCapture(x) ==
  [thrown |-> FALSE,
   written |-> x.debug /\ x.dfetch = "ok" /\ x.dwrite \in {"ok", "failWrite"},
   dirMade |-> x.debug /\ x.dfetch = "ok" /\ x.dwrite # "failDirs"]

\* the body of the outer try (lines 72-177)
ExtractBody(x) ==
  LET d == DebugCapture(x) IN
  IF d.thrown THEN [thrown |-> TRUE, main |-> FALSE, written |-> d.written, res |-> ErrDesc("")]
  \* AsyncWebCrawler(...) is entered outside the inner try
  ELSE IF x.crawler = "throw"
    THEN [thrown |-> TRUE, main |-> TRUE, written |-> d.written, res |-> ErrDesc("")]
  ELSE IF x.fetch = "throw"
    THEN [thrown |-> FALSE, main |-> TRUE, written |-> d.written, res |-> Sentinel("Failed to extract content")]
  ELSE IF ~x.payload.present
    THEN [thrown |-> FALSE, main |-> TRUE, written |-> d.written, res |-> Sentinel("No content extracted")]
  ELSE [thrown |-> FALSE, main |-> TRUE, written |-> d.written, res |-> ProcessDoc(TruncatePayload(x.payload))]

\* without the outer except clause
ExtractPostContentUnguarded(x) ==
  LET b == ExtractBody(x) IN
  [raised |-> b.thrown, main |-> b.main, written |-> b.written, res |-> b.res]

\* sys.setrecursionlimit(200000)
RecursionLimitRaised == 200000

\* the limit restored only after a body is returned (a bug variant)
LimitAfterBodyOnly(e, saved) == IF e.res.kind = "body" THEN saved ELSE RecursionLimitRaised

\* the limit in force after the call returns: the finally clause restores
\* original_limit on every exit
LimitAfterCall(e, saved) == saved

\* the outer except Exception returns f"Failed to extract content: {e}"
ExtractPostContent(x) ==
  LET b == ExtractBody(x) IN
  IF b.thrown
  THEN [raised |-> FALSE, main |-> b.main, written |-> b.written,
        res |-> ErrDesc("Failed to extract content: <error>")]
  ELSE [raised |-> FALSE, main |-> b.main, written |-> b.written, res |-> b.res]

\* ---------------------------------------------------------------------------
\* State
\* ---------------------------------------------------------------------------

VARIABLES adapter, credential, minB, maxB, mr, resp, sres, cands, called, requested

\* the /search endpoint: its program counter, the loop index over posts,
\* post_responses, the indices whose processing raised, total_posts
VARIABLES pc, i, out, failed, total, debugHtml

\* the debug_html directory: whether it exists, the files in it (a stem and
\* a role suffix), and the loop indices whose raw page was saved
VARIABLES dirExists, debugDir, wrote

\* one call of extract_post_content: its input outcomes and its result
VARIABLES exIn, exOut

\* the recency hint of the DuckDuckGo adapter: the clock, min_publish_date
\* (a day) and the timelimit chosen ("" before it is computed)
VARIABLES recNow, recMin, recOut

\* sequential calls of extract_post_content: the process-wide recursion
\* limit, its value before the first call, original_limit of the running
\* call, whether a call is running, the calls done, the last result
VARIABLES rlimit, rinit, rsaved, rpc, rcalls, rlast, roverlap

searchVars == <<adapter, credential, minB, maxB, mr, resp, sres, cands, called, requested>>

routeVars == <<pc, i, out, failed, total, debugHtml, dirExists, debugDir, wrote>>

extractVars == <<exIn, exOut>>

recVars == <<recNow, recMin, recOut>>

limVars == <<rlimit, rinit, rsaved, rpc, rcalls, rlast, roverlap>>

vars == <<searchVars, routeVars, extractVars, recVars, limVars>>

Responses(n, exa, m) ==
  {[status |-> "ok", hits |-> hs] : hs \in {s \in HitSeqs(n) : exa => Len(s) <= 2 * m}}
  \cup {[status |-> st, hits |-> <<>>] : st \in {"neterr", "badjson"}}

NoInput == [debug |-> FALSE, dfetch |-> "ok", dwrite |-> "ok", crawler |-> "ok", fetch |-> "ok",
            payload |-> [present |-> FALSE, long |-> FALSE, doc |-> InvalidDoc, pre |-> InvalidDoc]]

NoOutput == [raised |-> FALSE, main |-> FALSE, written |-> FALSE, res |-> Sentinel("")]

RouteIdle ==
  /\ pc = "idle" /\ i = 1 /\ out = <<>> /\ failed = {} /\ total = 0 /\ debugHtml = FALSE
  /\ dirExists = FALSE /\ debugDir = {} /\ wrote = {}

ExtractIdle == exIn = NoInput /\ exOut = NoOutput

RecIdle == recNow = 0 /\ recMin = NoBound /\ recOut = ""

\* callers that may run extract_post_content at once: concurrent /search
\* requests on one event loop
NumCallers == 2

Callers == 1..NumCallers

LimIdle ==
  /\ rlimit = 1000 /\ rinit = 1000 /\ rsaved = [c \in Callers |-> 1000]
  /\ rpc = [c \in Callers |-> "idle"] /\ rcalls = 0
  /\ rlast = NoOutput /\ roverlap = FALSE

ApplyResult(r) ==
  /\ sres' = IF r.raised THEN "raised" ELSE "returned"
  /\ cands' = r.cands
  /\ called' = r.called
  /\ requested' = r.requested

\* --- search specification: one adapter call ----------------------------
SearchInit ==
  /\ adapter \in {"generic", "ddg", "exa"}
  /\ credential \in (IF adapter = "exa" THEN BOOLEAN ELSE {TRUE})
  /\ minB \in MinBounds
  /\ maxB \in MaxBounds
  \* every caller (routes.py, main()) passes the default max_results of 15;
  \* the small positive values stand for it with fewer hits
  /\ mr \in (IF adapter = "generic" THEN {DefaultMaxResults} ELSE 1..MaxRes)
  /\ resp \in Responses(MaxHits, adapter = "exa", mr)
  /\ sres = "pending"
  /\ cands = <<>>
  /\ called = FALSE
  /\ requested = 0
  /\ RouteIdle
  /\ ExtractIdle
  /\ RecIdle
  /\ LimIdle

SearchGeneric ==
  /\ sres = "pending" /\ adapter = "generic"
  /\ ApplyResult(SearchLinkedinPosts(resp, minB, maxB))
  /\ UNCHANGED <<adapter, credential, minB, maxB, mr, resp, routeVars, extractVars, recVars, limVars>>

SearchDuckduckgo ==
  /\ sres = "pending" /\ adapter = "ddg"
  /\ ApplyResult(SearchLinkedinPostsDuckduckgo(resp, minB, maxB, mr))
  /\ UNCHANGED <<adapter, credential, minB, maxB, mr, resp, routeVars, extractVars, recVars, limVars>>

SearchExa ==
  /\ sres = "pending" /\ adapter = "exa"
  /\ ApplyResult(SearchLinkedinPostsExa(credential, resp, mr))
  /\ UNCHANGED <<adapter, credential, minB, maxB, mr, resp, routeVars, extractVars, recVars, limVars>>

SearchNext == SearchGeneric \/ SearchDuckduckgo \/ SearchExa

SearchSpec == SearchInit /\ [][SearchNext]_vars

\* --- extraction specification: one extract_post_content call -----------
ExtractInit ==
  /\ adapter = "exa" /\ credential = TRUE /\ minB = NoBound /\ maxB = NoBound
  /\ mr = DefaultMaxResults /\ resp = [status |-> "ok", hits |-> <<>>]
  /\ sres = "pending" /\ cands = <<>> /\ called = FALSE /\ requested = 0
  /\ RouteIdle
  /\ exIn \in ExtractInputs
  /\ exOut = NoOutput
  /\ RecIdle
  /\ LimIdle

Extract ==
  /\ exOut = NoOutput
  /\ exOut' = ExtractPostContent(exIn)
  /\ UNCHANGED <<searchVars, routeVars, exIn, recVars, limVars>>

ExtractSpec == ExtractInit /\ [][Extract]_vars

\* --- pipeline specification: the /search endpoint ----------------------
PipeMaxHits == 2

PipeHits == [url : Urls, date : {[kind |-> "iso", t |-> 1], [kind |-> "isoZ", t |-> 3]}]

PipeResponses ==
  {[status |-> "ok", hits |-> hs] : hs \in UNION {[1..k -> PipeHits] : k \in 0..PipeMaxHits}}
  \cup {[status |-> "neterr", hits |-> <<>>]}

\* the extraction outcomes a loop iteration draws from: a post body, or a
\* failed crawl; with debug_html the raw fetch and the file write may fail
PipeExtractInputs(dbg) ==
  {[debug |-> dbg, dfetch |-> df, dwrite |-> dw, crawler |-> "ok", fetch |-> f,
    payload |-> [present |-> TRUE, long |-> FALSE,
                 doc |-> [kind |-> "listDict", field |-> [st |-> "str", len |-> 1]],
                 pre |-> [kind |-> "listDict", field |-> [st |-> "str", len |-> 1]]]] :
     df \in (IF dbg THEN {"ok", "throw"} ELSE {"ok"}),
     dw \in (IF dbg THEN DebugWriteOutcomes ELSE {"ok"}),
     f \in {"ok", "throw"}}

\* post.url.split("/")[-1]
PostId(u) == u[Len(u)]

\* the post_meta dict the endpoint passes (lines 38-45): it has no "id" key
PipeMeta(post) == [hasId |-> FALSE, id |-> ""]

\* str(post_meta.get('id', 'unknown')).replace('/', '_')[:50]; the ids of the
\* url vocabulary hold no '/' and are shorter than 50 characters
DebugFileStem(meta) == IF meta.hasId THEN meta.id ELSE "unknown"

\* the strings a stem starts with, over the stem and id vocabulary: every
\* stem starts with "" and itself, and "alice_n8n-activity-12" also with the
\* id "alice_n8n-activity-1"; no other id of the vocabulary is a proper
\* prefix of a stem
StemPrefixes(st) ==
  {"", st} \cup (IF st = "alice_n8n-activity-12" THEN {"alice_n8n-activity-1"} ELSE {})

\* f.startswith(post_id) for f = stem + "_raw.html"
FileStartsWith(f, pid) == pid \in StemPrefixes(f.stem)

\* debug_files of lines 48-58: the files of debug_html starting with post_id;
\* None (here {}) when the directory is absent or no file matches
DebugFiles(dbg, exists, dir, u) ==
  IF dbg /\ exists THEN {f \in dir : FileStartsWith(f, PostId(u))} ELSE {}

\* the post_response dict of lines 60-69
PostResponse(post, content, files) ==
  [url |-> post.url, id |-> PostId(post.url), date |-> post.date, content |-> content,
   debug_files |-> files]

\* the debug directory after one extract_post_content call: os.makedirs once
\* the raw page is fetched, then the "<stem>_raw.html" file
DirAfter(x, e, dir, post) ==
  IF e.written THEN dir \cup {[stem |-> DebugFileStem(PipeMeta(post)), role |-> "raw"]} ELSE dir

DirExistsAfter(x, exists) == exists \/ DebugCapture(x).dirMade

\* files other writers leave in debug_html: earlier or concurrent /search
\* requests ("unknown_raw.html") and linkedin.main(), whose post_meta "id"
\* is url.split("/")[-1] for a result object and whatever the LLM returned
\* for a dict: a string ("" included), None ("None_raw.html") or missing
\* ("unknown_raw.html"); over the ids of the candidates ("alice_n8n-activity-1"
\* and "") the stems stand for a stem equal to an id, one extending an id,
\* and stems matching only ""
OtherFiles == {[stem |-> st, role |-> "raw"] :
                 st \in {"unknown", "None", "", "alice_n8n-activity-1", "alice_n8n-activity-12",
                        "bob_tips-activity-2"}}

PipeInit ==
  /\ adapter = "exa"
  /\ credential \in BOOLEAN
  /\ minB = NoBound /\ maxB = NoBound
  /\ mr = DefaultMaxResults
  /\ resp \in PipeResponses
  /\ sres = "pending" /\ cands = <<>> /\ called = FALSE /\ requested = 0
  /\ pc = "search" /\ i = 1 /\ out = <<>> /\ failed = {} /\ total = 0
  /\ debugHtml \in BOOLEAN
  \* debug_html persists across requests
  /\ dirExists \in BOOLEAN
  /\ debugDir \in (IF dirExists THEN SUBSET OtherFiles ELSE {{}})
  /\ wrote = {}
  /\ ExtractIdle
  /\ RecIdle
  /\ LimIdle

\* posts = await search_linkedin_posts_exa(...)
PipeSearch ==
  /\ pc = "search"
  /\ LET r == SearchLinkedinPostsExa(credential, resp, mr) IN
       /\ ApplyResult(r)
       /\ pc' = IF r.raised THEN "error" ELSE "loop"
  /\ UNCHANGED <<adapter, credential, minB, maxB, mr, resp, i, out, failed, total, debugHtml,
                 dirExists, debugDir, wrote, extractVars, recVars, limVars>>

\* a loop that aborts the batch at the first failing post
PipeStepAbort ==
  /\ pc = "loop" /\ i <= Len(cands)
  /\ \E x \in PipeExtractInputs(debugHtml), raises \in BOOLEAN :
       LET e == ExtractPostContent(x)
           ex == DirExistsAfter(x, dirExists)
           dir == DirAfter(x, e, debugDir, cands[i])
       IN
       /\ dirExists' = ex
       /\ debugDir' = dir
       /\ wrote' = IF e.written THEN wrote \cup {i} ELSE wrote
       /\ IF e.raised \/ raises
          THEN /\ failed' = failed \cup {i}
               /\ out' = out
               /\ i' = Len(cands) + 1
          ELSE /\ out' = Append(out, PostResponse(cands[i], e.res, DebugFiles(debugHtml, ex, dir, cands[i].url)))
               /\ failed' = failed
               /\ i' = i + 1
  /\ UNCHANGED <<searchVars, pc, total, debugHtml, extractVars, recVars, limVars>>

\* one iteration of "for post in posts": the try block builds the record;
\* raises models any exception escaping a statement of that block, which the
\* except clause prints before it continues with the next post
PipeStep ==
  /\ pc = "loop" /\ i <= Len(cands)
  /\ \E x \in PipeExtractInputs(debugHtml), raises \in BOOLEAN :
       LET e == ExtractPostContent(x)
           ex == DirExistsAfter(x, dirExists)
           dir == DirAfter(x, e, debugDir, cands[i])
       IN
       /\ dirExists' = ex
       /\ debugDir' = dir
       /\ wrote' = IF e.written THEN wrote \cup {i} ELSE wrote
       /\ IF e.raised \/ raises
          THEN /\ failed' = failed \cup {i}
               /\ out' = out
          ELSE /\ out' = Append(out, PostResponse(cands[i], e.res, DebugFiles(debugHtml, ex, dir, cands[i].url)))
               /\ failed' = failed
  /\ i' = i + 1
  /\ UNCHANGED <<searchVars, pc, total, debugHtml, extractVars, recVars, limVars>>

\* return SearchResponse(posts=post_responses, total_posts=len(post_responses), ...)
PipeFinish ==
  /\ pc = "loop" /\ i > Len(cands)
  /\ pc' = "done"
  /\ total' = Len(out)
  /\ UNCHANGED <<searchVars, i, out, failed, debugHtml, dirExists, debugDir, wrote, extractVars, recVars, limVars>>

\* another writer (a concurrent request, or linkedin.main()) saves a raw
\* page into debug_html while this request awaits the crawler
\* while this request awaits, another extract_post_content call runs its
\* debug capture: os.makedirs, then open() leaves a file or fails
OtherWrite ==
  /\ pc = "loop"
  /\ \/ /\ ~dirExists
        /\ dirExists' = TRUE
        /\ debugDir' = debugDir
     \/ \E f \in OtherFiles :
          /\ f \notin debugDir
          /\ debugDir' = debugDir \cup {f}
          /\ dirExists' = TRUE
  /\ UNCHANGED <<searchVars, pc, i, out, failed, total, debugHtml, wrote, extractVars, recVars, limVars>>

PipeNext == PipeSearch \/ PipeStep \/ PipeFinish \/ OtherWrite

PipeSpec == PipeInit /\ [][PipeNext]_vars

\* --- recency specification: the timelimit hint ------------------------
MaxNow == 70

MaxDay == 35

RecInit ==
  /\ adapter = "ddg" /\ credential = TRUE /\ minB = NoBound /\ maxB = NoBound
  /\ mr = DefaultMaxResults /\ resp = [status |-> "ok", hits |-> <<>>]
  /\ sres = "pending" /\ cands = <<>> /\ called = FALSE /\ requested = 0
  /\ RouteIdle
  /\ ExtractIdle
  /\ recNow \in 0..MaxNow
  /\ recMin \in {NoBound} \cup 0..MaxDay
  /\ recOut = ""
  /\ LimIdle

ChooseTimelimit ==
  /\ recOut = ""
  /\ recOut' = Timelimit(recNow, recMin)
  /\ UNCHANGED <<searchVars, routeVars, extractVars, recNow, recMin, limVars>>

RecSpec == RecInit /\ [][ChooseTimelimit]_vars

\* --- recursion-limit specification: extract_post_content calls ----------
\* The process-wide limit is read and set at lines 68-69 (no await between
\* them) and restored by the finally clause; the crawler awaits in between
\* return to the event loop, where another caller's call may start or end.
\* roverlap records that a call started while another was running.
MaxCalls == 3

\* limits the interpreter may have before the first call
InitialLimits == {1000, 3000}

\* the outcomes a call draws from
LimInputs == {x \in ExtractInputs : ~x.debug /\ ~x.payload.long}

LimInit ==
  /\ adapter = "exa" /\ credential = TRUE /\ minB = NoBound /\ maxB = NoBound
  /\ mr = DefaultMaxResults /\ resp = [status |-> "ok", hits |-> <<>>]
  /\ sres = "pending" /\ cands = <<>> /\ called = FALSE /\ requested = 0
  /\ RouteIdle
  /\ ExtractIdle
  /\ RecIdle
  /\ rinit \in InitialLimits
  /\ rlimit = rinit /\ rsaved = [c \in Callers |-> rinit]
  /\ rpc = [c \in Callers |-> "idle"] /\ rcalls = 0 /\ rlast = NoOutput
  /\ roverlap = FALSE

\* lines 68-69: original_limit = sys.getrecursionlimit(); set 200000
EnterCall ==
  /\ rcalls < MaxCalls
  /\ \E c \in Callers :
       /\ rpc[c] = "idle"
       /\ rsaved' = [rsaved EXCEPT ![c] = rlimit]
       /\ rpc' = [rpc EXCEPT ![c] = "in"]
       /\ roverlap' = (roverlap \/ \E d \in Callers : rpc[d] = "in")
  /\ rlimit' = RecursionLimitRaised
  /\ rcalls' = rcalls + 1
  /\ UNCHANGED <<searchVars, routeVars, extractVars, recVars, rinit, rlast>>

\* the rest of the call, whichever way it exits, then the finally clause
ExitCall ==
  /\ \E c \in Callers, x \in LimInputs :
       /\ rpc[c] = "in"
       /\ LET e == ExtractPostContent(x) IN
            /\ rlimit' = LimitAfterCall(e, rsaved[c])
            /\ rlast' = e
       /\ rpc' = [rpc EXCEPT ![c] = "idle"]
  /\ UNCHANGED <<searchVars, routeVars, extractVars, recVars, rinit, rsaved, rcalls, roverlap>>

LimNext == EnterCall \/ ExitCall

LimSpec == LimInit /\ [][LimNext]_vars

\* ===========================================================================
\* Properties
\* ===========================================================================

\* C1: every failing post of the /search loop is skipped and the loop goes on:
\* the posts returned are exactly the non-failing candidates in provider
\* order, and total_posts is their number.
C1_FailureIsolationOrder ==
  pc = "done" =>
    LET kept == SelectSeq([k \in 1..Len(cands) |-> k], LAMBDA k : k \notin failed)
    IN /\ Len(out) = Len(kept)
       /\ \A j \in 1..Len(out) : out[j].url = cands[kept[j]].url /\ out[j].date = cands[kept[j]].date
       /\ total = Len(out)

C1_Witness ==
  /\ pc = "done"
  /\ \E k \in failed : k + 1 \in (1..Len(cands)) \ failed

\* C2: every adapter returns normally, and returns an empty sequence when
\* the provider call or its response fails.
C2_AdaptersNeverRaise ==
  /\ sres # "raised"
  /\ (sres = "returned" /\ resp.status # "ok") => cands = <<>>

\* the claims' date range test on a parsed date
InRangeClaim(d) ==
  /\ (minB = NoBound \/ (d.kind # "none" /\ d.t >= BoundInstant(minB)))
  /\ (maxB = NoBound \/ (d.kind # "none" /\ d.t <= BoundInstant(maxB)))

\* the claims' post-path marker test: "linkedin.com/posts" in the lower-cased url
HasPostPathMarker(u) ==
  \E k \in 1..Len(u) :
     /\ k < Len(u)
     /\ LowerSeg(u[k]) \in {"www.linkedin.com", "linkedin.com"}
     /\ LowerSeg(u[k+1]) = "posts"

\* C3: the DuckDuckGo adapter keeps a post hit iff its date lies within the
\* set bounds; an unknown date passes only when no bound is set.
C3_DateBoundFilter ==
  (adapter = "ddg" /\ sres = "returned" /\ resp.status = "ok" /\ mr >= Len(resp.hits)) =>
    cands = [k \in 1..Len(SelectSeq(resp.hits, LAMBDA h : HasPostPathMarker(h.url) /\ InRangeClaim(ParseDuckduckgoDate(h.date))))
              |-> LET h == SelectSeq(resp.hits, LAMBDA hh : HasPostPathMarker(hh.url) /\ InRangeClaim(ParseDuckduckgoDate(hh.date)))[k]
                  IN [url |-> h.url, date |-> ParseDuckduckgoDate(h.date)]]

\* C4: a hit whose date cannot be compared only loses that hit: whenever the
\* DuckDuckGo response holds a post hit with a comparable date in range, the
\* adapter returns a non-empty sequence.
C4_UncomparableDateLocal ==
  (adapter = "ddg" /\ sres = "returned" /\ resp.status = "ok" /\ mr >= 1
   /\ \E k \in 1..Len(resp.hits) :
        /\ HasPostPathMarker(resp.hits[k].url)
        /\ ParseDuckduckgoDate(resp.hits[k].date).kind = "naive"
        /\ InRangeClaim(ParseDuckduckgoDate(resp.hits[k].date)))
  => cands # <<>>

\* C5: every candidate an adapter returns has "linkedin.com/posts" in its
\* url, case-insensitively.
C5_PostPathFilter ==
  sres = "returned" => \A k \in 1..Len(cands) : HasPostPathMarker(cands[k].url)

C5_Witness ==
  /\ sres = "returned"
  /\ \E k \in 1..Len(cands) : cands[k].url = UrlPostMixed
  /\ \E k \in 1..Len(resp.hits) : resp.hits[k].url = UrlOther

\* C6: the DuckDuckGo and Exa adapters return at most max_results candidates,
\* and Exa asks the provider for 2 * max_results hits.
C6_ResultCap ==
  (sres = "returned" /\ adapter \in {"ddg", "exa"}) =>
    /\ Len(cands) <= mr
    /\ (adapter = "exa" /\ called) => requested = 2 * mr

C6_Witness ==
  /\ sres = "returned" /\ adapter = "ddg" /\ resp.status = "ok"
  /\ Len(cands) = mr
  /\ Len(SelectSeq(resp.hits, LAMBDA h : ContainsMarker(h.url))) > mr

\* C7: without an Exa credential the adapter never calls the provider and the
\* endpoint returns no posts.
C7_NoCredential ==
  (pc = "done" /\ ~credential) =>
    /\ ~called
    /\ sres = "returned"
    /\ cands = <<>>
    /\ out = <<>>
    /\ total = 0

C7_Witness ==
  /\ pc = "done" /\ ~credential
  /\ resp.status = "ok" /\ \E k \in 1..Len(resp.hits) : HasPostPathMarker(resp.hits[k].url)

ExtractSentinels ==
  {"Failed to extract content", "No content extracted", "No content found",
   "Invalid content structure", "Failed to parse content"}

\* C8: extract_post_content never raises; it returns the body text, a
\* sentinel or an error description, and the main extraction runs even when
\* the debug capture fails.
C8_ExtractNeverRaises ==
  exOut # NoOutput =>
    /\ ~exOut.raised
    /\ \/ exOut.res.kind = "body"
       \/ exOut.res.kind = "sentinel" /\ exOut.res.text \in ExtractSentinels
       \/ exOut.res.kind = "errdesc"
    /\ exOut.main

C8_Witness ==
  /\ exOut # NoOutput
  /\ exIn.debug /\ exIn.dfetch = "throw"
  /\ exOut.res.kind = "body"

\* an input whose extraction reaches a non-empty post_content string
HasBody(x) ==
  /\ x.crawler = "ok" /\ x.fetch = "ok" /\ x.payload.present
  /\ x.payload.pre.kind \in {"listDict", "dict"}
  /\ x.payload.pre.field.st = "str" /\ x.payload.pre.field.len > 0

\* C9: a body of at most 20000 characters is returned unchanged; a longer one
\* as its first 20000 characters followed by "... (truncated)".
C9_BodyTruncation ==
  (exOut # NoOutput /\ HasBody(exIn)) =>
    LET n == exIn.payload.pre.field.len IN
    /\ exOut.res.kind = "body"
    /\ exOut.res.text = "post_content"
    /\ n <= 20000 => exOut.res.len = n /\ ~exOut.res.marker
    /\ n > 20000 => exOut.res.len = 20000 /\ exOut.res.marker

C9_Witness ==
  /\ exOut # NoOutput /\ HasBody(exIn)
  /\ exIn.payload.pre.field.len = 20001

\* the last non-empty "/"-separated segment of a url
LastNonEmptySeg(u) ==
  u[CHOOSE k \in 1..Len(u) : u[k] # "" /\ \A m \in (k+1)..Len(u) : u[m] = ""]

\* C10: a record's id is the last non-empty "/"-separated segment of its url.
C10_IdRoundTrip ==
  pc = "done" =>
    \A j \in 1..Len(out) : out[j].id = LastNonEmptySeg(out[j].url) /\ out[j].id # ""


\* an input whose main crawl returns a payload that json.loads parses after
\* the 50000-character cut
ParsesAfterCut(x) ==
  /\ x.crawler = "ok" /\ x.fetch = "ok" /\ x.payload.present
  /\ x.payload.pre.kind \notin {"invalid", "bignum"}

\* C11: a JSON list yields its first element (an empty mapping if empty), a
\* mapping is used directly, any other value yields "Invalid content
\* structure"; a missing, empty or null post_content yields "No content
\* found"; a non-mapping first element yields a sentinel, not an exception.
C11_PayloadShapes ==
  (exOut # NoOutput /\ ParsesAfterCut(exIn)) =>
    LET doc == exIn.payload.pre IN
    /\ ~exOut.raised
    /\ doc.kind \in {"num", "null"} => exOut.res = Sentinel("Invalid content structure")
    /\ doc.kind = "list0" => exOut.res = Sentinel("No content found")
    /\ doc.kind = "listNonDict" => exOut.res.kind \in {"sentinel", "errdesc"}
    /\ (doc.kind \in {"listDict", "dict"} /\ (doc.field.st \in {"missing", "null"} \/ doc.field.len = 0))
         => exOut.res = Sentinel("No content found")


\* C12: when debug_html is set and the raw fetch succeeds for a candidate, the
\* file written is "<sanitized id>_raw.html" for that candidate's id, and that
\* candidate's record lists it among its debug_files.
C12_DebugArtifactLinkage ==
  \A k \in wrote :
    LET f == [stem |-> PostId(cands[k].url), role |-> "raw"] IN
    /\ f \in debugDir
    /\ LET kept == SelectSeq([m \in 1..(i - 1) |-> m], LAMBDA m : m \notin failed) IN
       \A j \in 1..Len(out) : kept[j] = k => f \in out[j].debug_files


\* the claims' lexical order: a sorts below b
LexBelow(a, b) ==
  \/ \E k \in 1..Len(a) :
       /\ k <= Len(b)
       /\ \A m \in 1..(k - 1) : a[m] = b[m]
       /\ Ord(a[k]) < Ord(b[k])
  \/ Len(a) < Len(b) /\ a = SubSeq(b, 1, Len(a))

\* C13: the generic adapter drops a post hit with a non-empty date iff the
\* first whitespace-delimited token of the date sorts (as a string) below
\* min_publish_date or above max_publish_date; hits without a date are kept.
C13_GenericLexicalFilter ==
  (adapter = "generic" /\ sres = "returned") =>
    cands = SelectSeq(resp.hits, LAMBDA h :
              /\ HasPostPathMarker(h.url)
              /\ ~(h.date.s # <<>> /\ minB # NoBound /\ LexBelow(FirstToken(h.date.s), BoundStr(minB)))
              /\ ~(h.date.s # <<>> /\ maxB # NoBound /\ LexBelow(BoundStr(maxB), FirstToken(h.date.s))))

C13_Witness ==
  /\ adapter = "generic" /\ sres = "returned" /\ maxB # NoBound /\ minB # NoBound
  /\ \E k \in 1..Len(cands) : FirstToken(cands[k].date.s) = BoundStr(maxB)
  /\ \E k \in 1..Len(resp.hits) :
       HasPostPathMarker(resp.hits[k].url) /\ resp.hits[k].date.kind = "junk"


\* C14: with min_publish_date d whole days in the past the hint is "d" for
\* d <= 1, "w" for 1 < d <= 7, "m" for 7 < d <= 30, and "y" otherwise or
\* without min_publish_date.
C14_RecencyBucket ==
  recOut # "" =>
    IF recMin = NoBound THEN recOut = "y"
    ELSE LET days == (recNow - 2 * recMin) \div 2 IN
         /\ days <= 1 => recOut = "d"
         /\ (1 < days /\ days <= 7) => recOut = "w"
         /\ (7 < days /\ days <= 30) => recOut = "m"
         /\ days > 30 => recOut = "y"

C14_Witness ==
  recOut = "w" /\ recMin # NoBound /\ (recNow - 2 * recMin) \div 2 = 7


\* C15: after any sequence of sequential extract_post_content calls, whatever
\* way each exits, the recursion limit equals its value before the first call.
C15_RecursionLimitRestored ==
  ((\A c \in Callers : rpc[c] = "idle") /\ ~roverlap) => rlimit = rinit

C15_Witness ==
  /\ \A c \in Callers : rpc[c] = "idle"
  /\ ~roverlap /\ rcalls >= 2
  /\ rlast.res.kind = "errdesc"

====
